---- MODULE Spec2Model ----
(***************************************************************************)
(* Model of sn0int's sandboxed module execution (src/engine/isolation.rs): *)
(* spawn_module (parent side, one Supervisor per job), run_worker (child   *)
(* side, one process per job), the two pipes between them, and the shared  *)
(* event bus with its per-request reply channels.                          *)
(***************************************************************************)
EXTENDS Integers, Sequences, FiniteSets, TLC

\* The concurrently running jobs; each is one spawn_module call with its own child.
Jobs == {"A", "B"}

\* Error messages a module can return.
Msgs == {"boom", "oops"}

\* Reply values the consumer of the bus can produce.
Replies == {"r1", "r2"}

\* Largest number of lines the modules of all jobs together write to their
\* stdout (the final Exit events are not counted).
MaxEvents == 2

VARIABLES
    ppc,        \* ppc[j]: position of spawn_module for job j
    presult,    \* presult[j]: what spawn_module returned ("none" while running)
    waitChan,   \* waitChan[j]: bus index of the request whose reply channel j blocks on (0: none, or request lost)
    toChild,    \* toChild[j]: every line written to the child's stdin, in order
    childRead,  \* childRead[j]: number of lines of toChild[j] the child has read
    toParent,   \* toParent[j]: every line written to the child's stdout, in order
    parentRead, \* parentRead[j]: number of lines of toParent[j] the Supervisor has read
    cpc,        \* cpc[j]: position of the child process / run_worker
    cstat,      \* cstat[j]: how run_worker ended ("none" while running)
    cexit,      \* cexit[j]: exit status of the child process
    modres,     \* modres[j]: what module.run returned
    holders,    \* holders[j]: another clone of the reporter Arc was alive at finalization
    recvErr,    \* recvErr[j]: the child has seen its stdin closed while reading
    bus,        \* the shared event bus: every Event2 handed to the consumer, in order
    busFail,    \* busFail[j]: number of bus sends of job j that failed (consumer gone)
    consumerAlive

vars == <<ppc, presult, waitChan, toChild, childRead, toParent, parentRead,
          cpc, cstat, cexit, modres, holders, recvErr, bus, busFail, consumerAlive>>

parentVars == <<ppc, presult, waitChan>>
childVars == <<cpc, cstat, cexit, modres, holders, recvErr>>

\* ---------------------------------------------------------------- wire values

StartLine == "Start"

LogEv == [type |-> "Log", arg |-> "info"]
DbEv == [type |-> "Database", arg |-> "req"]
GarbageLine == [type |-> "Garbage", arg |-> "junk"]
ExitEv(r) == [type |-> "Exit", arg |-> r]

\* Event2 values on the bus; reply is the state of the entry's reply channel.
BusLog(j) == [job |-> j, kind |-> "Log", msg |-> "info", reply |-> "none"]
BusError(j, m) == [job |-> j, kind |-> "Error", msg |-> m, reply |-> "none"]
BusDb(j) == [job |-> j, kind |-> "Database", msg |-> "req", reply |-> "open"]

FailedToSend == "Failed to send to child"

\* ---------------------------------------------------------------- helpers

\* The Supervisor value (child handle, stdin, stdout) exists from setup until
\* spawn_module returns or unwinds; dropping it closes the parent's pipe ends.
SupervisorAlive(j) == ppc[j] \in {"send_start", "recv", "await_reply", "wait"}

\* The child process holds its ends of the pipes until it terminates.
ChildAlive(j) == cpc[j] \notin {"none", "exited"}

\* Variant of BusSend that puts a new event in front of the waiting ones.
BusSendFront(b, e) == IF consumerAlive THEN <<e>> \o b ELSE b

\* EventSender::send: hands the event to the consumer; when the consumer is
\* gone the event (and the reply sender inside it) is dropped.
BusSend(b, e) == IF consumerAlive THEN Append(b, e) ELSE b

BusFailures(n) == IF consumerAlive THEN 0 ELSE n

Count(s, P(_)) == Cardinality({i \in 1..Len(s) : P(s[i])})

\* Number of lines written so far by the modules of the jobs in S.
RECURSIVE ModuleLines(_)
ModuleLines(S) ==
    IF S = {} THEN 0
    ELSE LET j == CHOOSE x \in S : TRUE
         IN Count(toParent[j], LAMBDA e : e.type # "Exit") + ModuleLines(S \ {j})

\* ---------------------------------------------------------------- Init

Init ==
    /\ ppc = [j \in Jobs |-> "setup"]
    /\ presult = [j \in Jobs |-> "none"]
    /\ waitChan = [j \in Jobs |-> 0]
    /\ toChild = [j \in Jobs |-> <<>>]
    /\ childRead = [j \in Jobs |-> 0]
    /\ toParent = [j \in Jobs |-> <<>>]
    /\ parentRead = [j \in Jobs |-> 0]
    /\ cpc = [j \in Jobs |-> "none"]
    /\ cstat = [j \in Jobs |-> "none"]
    /\ cexit = [j \in Jobs |-> "none"]
    /\ modres = [j \in Jobs |-> "none"]
    /\ holders = [j \in Jobs |-> FALSE]
    /\ recvErr = [j \in Jobs |-> FALSE]
    /\ bus = <<>>
    /\ busFail = [j \in Jobs |-> 0]
    /\ consumerAlive = TRUE

\* ---------------------------------------------------------------- parent: spawn_module

\* Resolver::from_system()? and Supervisor::setup(&module)?: either the child
\* is spawned with both pipes, or spawn_module returns the error.
Setup(j) ==
    /\ ppc[j] = "setup"
    /\ \E ok \in BOOLEAN :
        IF ok
        THEN /\ ppc' = [ppc EXCEPT ![j] = "send_start"]
             /\ cpc' = [cpc EXCEPT ![j] = "recv_start"]
             /\ UNCHANGED presult
        ELSE /\ ppc' = [ppc EXCEPT ![j] = "done"]
             /\ presult' = [presult EXCEPT ![j] = "ErrSetup"]
             /\ UNCHANGED cpc
    /\ UNCHANGED <<waitChan, toChild, childRead, toParent, parentRead, cstat, cexit,
                   modres, holders, recvErr, bus, busFail, consumerAlive>>

\* Variant of SendStart that writes the StartCommand line twice.
SendStartTwice(j) ==
    /\ ppc[j] = "send_start"
    /\ \E ser \in BOOLEAN :
        IF ser /\ ChildAlive(j)
        THEN /\ toChild' = [toChild EXCEPT ![j] = Append(Append(@, StartLine), StartLine)]
             /\ ppc' = [ppc EXCEPT ![j] = "recv"]
             /\ UNCHANGED presult
        ELSE /\ ppc' = [ppc EXCEPT ![j] = "done"]
             /\ presult' = [presult EXCEPT ![j] = "ErrSend"]
             /\ UNCHANGED toChild
    /\ UNCHANGED <<waitChan, childRead, toParent, parentRead, childVars,
                   bus, busFail, consumerAlive>>

\* supervisor.send_start(..)?: serialize the StartCommand and write it as one
\* line; a serialization error or a write to a dead child returns the error.
SendStart(j) ==
    /\ ppc[j] = "send_start"
    /\ \E ser \in BOOLEAN :
        IF ser /\ ChildAlive(j)
        THEN /\ toChild' = [toChild EXCEPT ![j] = Append(@, StartLine)]
             /\ ppc' = [ppc EXCEPT ![j] = "recv"]
             /\ UNCHANGED presult
        ELSE /\ ppc' = [ppc EXCEPT ![j] = "done"]
             /\ presult' = [presult EXCEPT ![j] = "ErrSend"]
             /\ UNCHANGED toChild
    /\ UNCHANGED <<waitChan, childRead, toParent, parentRead, childVars,
                   bus, busFail, consumerAlive>>

\* The next unread line of the child's output, if one is there.
HasLine(j) == parentRead[j] < Len(toParent[j])
NextLine(j) == toParent[j][parentRead[j] + 1]

\* Variant of RecvLog that acknowledges the Log event to the child.
RecvLogAck(j) ==
    /\ ppc[j] = "recv"
    /\ HasLine(j)
    /\ NextLine(j).type = "Log"
    /\ parentRead' = [parentRead EXCEPT ![j] = @ + 1]
    /\ bus' = BusSend(bus, BusLog(j))
    /\ busFail' = [busFail EXCEPT ![j] = @ + BusFailures(1)]
    /\ toChild' = [toChild EXCEPT ![j] = IF ChildAlive(j) THEN Append(@, "r1") ELSE @]
    /\ UNCHANGED <<parentVars, childRead, toParent, childVars, consumerAlive>>

\* Variant of RecvLog in which relaying waits until no other job has a
\* callback outstanding.
RecvLogSerialized(j) ==
    /\ ppc[j] = "recv"
    /\ HasLine(j)
    /\ NextLine(j).type = "Log"
    /\ \A k \in Jobs \ {j} : ppc[k] # "await_reply"
    /\ parentRead' = [parentRead EXCEPT ![j] = @ + 1]
    /\ bus' = BusSend(bus, BusLog(j))
    /\ busFail' = [busFail EXCEPT ![j] = @ + BusFailures(1)]
    /\ UNCHANGED <<parentVars, toChild, childRead, toParent, childVars, consumerAlive>>

\* recv() = Event::Log(event) => tx.send(Event2::Log(event))
RecvLog(j) ==
    /\ ppc[j] = "recv"
    /\ HasLine(j)
    /\ NextLine(j).type = "Log"
    /\ parentRead' = [parentRead EXCEPT ![j] = @ + 1]
    /\ bus' = BusSend(bus, BusLog(j))
    /\ busFail' = [busFail EXCEPT ![j] = @ + BusFailures(1)]
    /\ UNCHANGED <<parentVars, toChild, childRead, toParent, childVars, consumerAlive>>

\* Variant of RecvDatabase in which the request is put on the bus and the
\* receive loop goes on without waiting for the reply.
RecvDatabasePipelined(j) ==
    /\ ppc[j] = "recv"
    /\ HasLine(j)
    /\ NextLine(j).type = "Database"
    /\ parentRead' = [parentRead EXCEPT ![j] = @ + 1]
    /\ bus' = BusSend(bus, BusDb(j))
    /\ busFail' = [busFail EXCEPT ![j] = @ + BusFailures(1)]
    /\ waitChan' = [waitChan EXCEPT ![j] = IF consumerAlive THEN Len(bus) + 1 ELSE 0]
    /\ UNCHANGED <<ppc, presult, toChild, childRead, toParent, childVars, consumerAlive>>

\* recv() = Event::Database(object) => send_event_callback, up to the point
\* where it blocks in rx2.recv(): a fresh reply channel goes onto the bus
\* together with the request.
RecvDatabase(j) ==
    /\ ppc[j] = "recv"
    /\ HasLine(j)
    /\ NextLine(j).type = "Database"
    /\ parentRead' = [parentRead EXCEPT ![j] = @ + 1]
    /\ bus' = BusSend(bus, BusDb(j))
    /\ busFail' = [busFail EXCEPT ![j] = @ + BusFailures(1)]
    /\ waitChan' = [waitChan EXCEPT ![j] = IF consumerAlive THEN Len(bus) + 1 ELSE 0]
    /\ ppc' = [ppc EXCEPT ![j] = "await_reply"]
    /\ UNCHANGED <<presult, toChild, childRead, toParent, childVars, consumerAlive>>

\* Variant of ReplyState that reads the reply channel of the newest event on
\* the bus, whichever job it belongs to.
ReplyStateLatest(j) == IF waitChan[j] = 0 THEN "dropped" ELSE bus[Len(bus)].reply

\* State of the reply channel job j is blocked on.
ReplyState(j) == IF waitChan[j] = 0 THEN "dropped" ELSE bus[waitChan[j]].reply

\* send_struct(reply, tx): write the reply to the child; if the write fails,
\* put an error log on the bus instead.
SendStruct(j, v) ==
    IF ChildAlive(j)
    THEN /\ toChild' = [toChild EXCEPT ![j] = Append(@, v)]
         /\ UNCHANGED <<bus, busFail>>
    ELSE /\ bus' = BusSend(bus, BusError(j, FailedToSend))
         /\ busFail' = [busFail EXCEPT ![j] = @ + BusFailures(1)]
         /\ UNCHANGED toChild

\* Variant of ReplyArrives that takes the consumer's reply and goes back to
\* recv without forwarding it to the child.
ReplyArrivesSwallow(j) ==
    /\ ppc[j] = "await_reply"
    /\ ReplyState(j) \in Replies
    /\ ppc' = [ppc EXCEPT ![j] = "recv"]
    /\ waitChan' = [waitChan EXCEPT ![j] = 0]
    /\ UNCHANGED <<presult, toChild, childRead, toParent, parentRead, childVars,
                   bus, busFail, consumerAlive>>

\* Variant of ReplyArrives in which the Supervisor does not wait for the
\* consumer and answers an open request itself.
ReplyArrivesSelfAnswer(j) ==
    /\ ppc[j] = "await_reply"
    /\ ReplyState(j) \in Replies \cup {"open"}
    /\ SendStruct(j, IF ReplyState(j) = "open" THEN "r1" ELSE ReplyState(j))
    /\ ppc' = [ppc EXCEPT ![j] = "recv"]
    /\ waitChan' = [waitChan EXCEPT ![j] = 0]
    /\ UNCHANGED <<presult, childRead, toParent, parentRead, childVars, consumerAlive>>

\* rx2.recv().unwrap() returns the consumer's reply; send_struct forwards it
\* and the receive loop goes on.
ReplyArrives(j) ==
    /\ ppc[j] = "await_reply"
    /\ ReplyState(j) \in Replies
    /\ SendStruct(j, ReplyState(j))
    /\ ppc' = [ppc EXCEPT ![j] = "recv"]
    /\ waitChan' = [waitChan EXCEPT ![j] = 0]
    /\ UNCHANGED <<presult, childRead, toParent, parentRead, childVars, consumerAlive>>

\* Variant of ReplyLost in which a failed rx2.recv() yields a default reply
\* that is forwarded to the child.
ReplyLostDefault(j) ==
    /\ ppc[j] = "await_reply"
    /\ ReplyState(j) = "dropped"
    /\ SendStruct(j, "r1")
    /\ ppc' = [ppc EXCEPT ![j] = "recv"]
    /\ waitChan' = [waitChan EXCEPT ![j] = 0]
    /\ UNCHANGED <<presult, childRead, toParent, parentRead, childVars, consumerAlive>>

\* rx2.recv() fails because every sender of the reply channel is gone; the
\* unwrap panics and unwinding drops the Supervisor.
ReplyLost(j) ==
    /\ ppc[j] = "await_reply"
    /\ ReplyState(j) = "dropped"
    /\ ppc' = [ppc EXCEPT ![j] = "panicked"]
    /\ presult' = [presult EXCEPT ![j] = "Panic"]
    /\ waitChan' = [waitChan EXCEPT ![j] = 0]
    /\ UNCHANGED <<toChild, childRead, toParent, parentRead, childVars,
                   bus, busFail, consumerAlive>>

\* recv() = Event::Exit(event): relay the error of Exit(Err), leave the loop.
RecvExit(j) ==
    /\ ppc[j] = "recv"
    /\ HasLine(j)
    /\ NextLine(j).type = "Exit"
    /\ parentRead' = [parentRead EXCEPT ![j] = @ + 1]
    /\ IF NextLine(j).arg \in Msgs
       THEN /\ bus' = BusSend(bus, BusError(j, NextLine(j).arg))
            /\ busFail' = [busFail EXCEPT ![j] = @ + BusFailures(1)]
       ELSE UNCHANGED <<bus, busFail>>
    /\ ppc' = [ppc EXCEPT ![j] = "wait"]
    /\ UNCHANGED <<presult, waitChan, toChild, childRead, toParent, childVars, consumerAlive>>

\* Variant of RecvFail in which a failed recv aborts every running job.
RecvFailAbortAll(j) ==
    /\ ppc[j] = "recv"
    /\ \/ /\ HasLine(j)
          /\ NextLine(j).type = "Garbage"
          /\ parentRead' = [parentRead EXCEPT ![j] = @ + 1]
       \/ /\ ~HasLine(j)
          /\ ~ChildAlive(j)
          /\ UNCHANGED parentRead
    /\ ppc' = [k \in Jobs |-> IF k = j \/ SupervisorAlive(k) THEN "done" ELSE ppc[k]]
    /\ presult' = [k \in Jobs |-> IF k = j \/ SupervisorAlive(k) THEN "ErrJson" ELSE presult[k]]
    /\ UNCHANGED <<waitChan, toChild, childRead, toParent, childVars,
                   bus, busFail, consumerAlive>>

\* Variant of RecvFail in which a line that does not parse is skipped and
\* the read is tried again.
RecvFailRetry(j) ==
    /\ ppc[j] = "recv"
    /\ \/ /\ HasLine(j)
          /\ NextLine(j).type = "Garbage"
          /\ parentRead' = [parentRead EXCEPT ![j] = @ + 1]
          /\ UNCHANGED <<ppc, presult>>
       \/ /\ ~HasLine(j)
          /\ ~ChildAlive(j)
          /\ ppc' = [ppc EXCEPT ![j] = "done"]
          /\ presult' = [presult EXCEPT ![j] = "ErrJson"]
          /\ UNCHANGED parentRead
    /\ UNCHANGED <<waitChan, toChild, childRead, toParent, childVars,
                   bus, busFail, consumerAlive>>

\* supervisor.recv()? fails: the line is not an Event, or the child's end of
\* the pipe is closed and read_line returns an empty line, which does not parse.
RecvFail(j) ==
    /\ ppc[j] = "recv"
    /\ \/ /\ HasLine(j)
          /\ NextLine(j).type = "Garbage"
          /\ parentRead' = [parentRead EXCEPT ![j] = @ + 1]
       \/ /\ ~HasLine(j)
          /\ ~ChildAlive(j)
          /\ UNCHANGED parentRead
    /\ ppc' = [ppc EXCEPT ![j] = "done"]
    /\ presult' = [presult EXCEPT ![j] = "ErrJson"]
    /\ UNCHANGED <<waitChan, toChild, childRead, toParent, childVars,
                   bus, busFail, consumerAlive>>

\* Variant of Wait that reaps the child and ignores its exit status.
WaitIgnoreStatus(j) ==
    /\ ppc[j] = "wait"
    /\ cpc[j] = "exited"
    /\ ppc' = [ppc EXCEPT ![j] = "done"]
    /\ presult' = [presult EXCEPT ![j] = "Ok"]
    /\ UNCHANGED <<waitChan, toChild, childRead, toParent, parentRead, childVars,
                   bus, busFail, consumerAlive>>

\* supervisor.wait()?; Ok(())
Wait(j) ==
    /\ ppc[j] = "wait"
    /\ cpc[j] = "exited"
    /\ ppc' = [ppc EXCEPT ![j] = "done"]
    /\ presult' = [presult EXCEPT ![j] = IF cexit[j] = "success" THEN "Ok" ELSE "ErrChild"]
    /\ UNCHANGED <<waitChan, toChild, childRead, toParent, parentRead, childVars,
                   bus, busFail, consumerAlive>>

\* ---------------------------------------------------------------- child: run_worker

\* Variant of RecvStart that keeps waiting when stdin is closed and empty.
RecvStartBlocking(j) ==
    /\ cpc[j] = "recv_start"
    /\ childRead[j] < Len(toChild[j])
    /\ childRead' = [childRead EXCEPT ![j] = @ + 1]
    /\ cpc' = [cpc EXCEPT ![j] = "load_psl"]
    /\ UNCHANGED <<parentVars, toChild, toParent, parentRead, cstat, cexit, modres, holders,
                   recvErr, bus, busFail, consumerAlive>>

\* reporter.recv_start()?: read the first line; an empty read (stdin closed
\* with nothing buffered) does not parse and run_worker returns the error.
RecvStart(j) ==
    /\ cpc[j] = "recv_start"
    /\ IF childRead[j] < Len(toChild[j])
       THEN /\ childRead' = [childRead EXCEPT ![j] = @ + 1]
            /\ cpc' = [cpc EXCEPT ![j] = "load_psl"]
            /\ UNCHANGED cstat
       ELSE /\ ~SupervisorAlive(j)
            /\ cpc' = [cpc EXCEPT ![j] = "returned"]
            /\ cstat' = [cstat EXCEPT ![j] = "ErrHandshake"]
            /\ UNCHANGED childRead
    /\ UNCHANGED <<parentVars, toChild, toParent, parentRead, cexit, modres, holders,
                   recvErr, bus, busFail, consumerAlive>>

\* Variant of LoadPsl in which a malformed list is noted but not fatal.
LoadPslLenient(j) ==
    /\ cpc[j] = "load_psl"
    /\ \E ok \in BOOLEAN :
        /\ cpc' = [cpc EXCEPT ![j] = "run"]
        /\ cstat' = [cstat EXCEPT ![j] = IF ok THEN "none" ELSE "ErrPsl"]
    /\ UNCHANGED <<parentVars, toChild, childRead, toParent, parentRead, cexit, modres,
                   holders, recvErr, bus, busFail, consumerAlive>>

\* Psl::from_str(&psl).context(..)?
LoadPsl(j) ==
    /\ cpc[j] = "load_psl"
    /\ \E ok \in BOOLEAN :
        IF ok
        THEN /\ cpc' = [cpc EXCEPT ![j] = "run"]
             /\ UNCHANGED cstat
        ELSE /\ cpc' = [cpc EXCEPT ![j] = "returned"]
             /\ cstat' = [cstat EXCEPT ![j] = "ErrPsl"]
    /\ UNCHANGED <<parentVars, toChild, childRead, toParent, parentRead, cexit, modres,
                   holders, recvErr, bus, busFail, consumerAlive>>

\* StdioReporter::send as the running module uses it: one line on stdout.
\* A write to a pipe whose read end is closed fails and leaves no line.
ModuleSend(j, e) ==
    /\ cpc[j] = "run"
    /\ ModuleLines(Jobs) < MaxEvents
    /\ SupervisorAlive(j)
    /\ toParent' = [toParent EXCEPT ![j] = Append(@, e)]

ModuleLog(j) ==
    /\ ModuleSend(j, LogEv)
    /\ UNCHANGED <<parentVars, toChild, childRead, parentRead, childVars,
                   bus, busFail, consumerAlive>>

\* The module sends a Database request and then blocks in StdioReporter::recv.
ModuleDb(j) ==
    /\ ModuleSend(j, DbEv)
    /\ cpc' = [cpc EXCEPT ![j] = "await_reply"]
    /\ UNCHANGED <<parentVars, toChild, childRead, parentRead, cstat, cexit, modres,
                   holders, recvErr, bus, busFail, consumerAlive>>

\* Something in the child process writes a line to stdout that is not an Event.
ModuleGarbage(j) ==
    /\ ModuleSend(j, GarbageLine)
    /\ UNCHANGED <<parentVars, toChild, childRead, parentRead, childVars,
                   bus, busFail, consumerAlive>>

\* StdioReporter::recv: the module reads the reply line, or sees stdin closed.
RecvReply(j) ==
    /\ cpc[j] = "await_reply"
    /\ IF childRead[j] < Len(toChild[j])
       THEN /\ childRead' = [childRead EXCEPT ![j] = @ + 1]
            /\ UNCHANGED recvErr
       ELSE /\ ~SupervisorAlive(j)
            /\ recvErr' = [recvErr EXCEPT ![j] = TRUE]
            /\ UNCHANGED childRead
    /\ cpc' = [cpc EXCEPT ![j] = "run"]
    /\ UNCHANGED <<parentVars, toChild, toParent, parentRead, cstat, cexit, modres,
                   holders, bus, busFail, consumerAlive>>

\* Variant of Finalize in which a module error, once reported by Exit(Err),
\* is also returned from run_worker as its own error.
FinalizeModuleErrFatal(j) ==
    /\ cpc[j] = "run"
    /\ cpc' = [cpc EXCEPT ![j] = "returned"]
    /\ \E r \in {"Ok"} \cup Msgs, h \in BOOLEAN :
        /\ modres' = [modres EXCEPT ![j] = r]
        /\ holders' = [holders EXCEPT ![j] = h]
        /\ IF h
           THEN /\ cstat' = [cstat EXCEPT ![j] = "Panic"]
                /\ UNCHANGED toParent
           ELSE IF SupervisorAlive(j)
                THEN /\ toParent' = [toParent EXCEPT ![j] = Append(@, ExitEv(r))]
                     /\ cstat' = [cstat EXCEPT ![j] = IF r = "Ok" THEN "Ok" ELSE "ErrModule"]
                ELSE /\ cstat' = [cstat EXCEPT ![j] = "ErrSend"]
                     /\ UNCHANGED toParent
    /\ UNCHANGED <<parentVars, toChild, childRead, parentRead, cexit,
                   recvErr, bus, busFail, consumerAlive>>

\* Variant of Finalize that does not check for other holders of the reporter.
FinalizeUnchecked(j) ==
    /\ cpc[j] = "run"
    /\ cpc' = [cpc EXCEPT ![j] = "returned"]
    /\ \E r \in {"Ok"} \cup Msgs, h \in BOOLEAN :
        /\ modres' = [modres EXCEPT ![j] = r]
        /\ holders' = [holders EXCEPT ![j] = h]
        /\ IF SupervisorAlive(j)
           THEN /\ toParent' = [toParent EXCEPT ![j] = Append(@, ExitEv(r))]
                /\ cstat' = [cstat EXCEPT ![j] = "Ok"]
           ELSE /\ cstat' = [cstat EXCEPT ![j] = "ErrSend"]
                /\ UNCHANGED toParent
    /\ UNCHANGED <<parentVars, toChild, childRead, parentRead, cexit,
                   recvErr, bus, busFail, consumerAlive>>

\* Variant of Finalize that reports Exit(Ok) whatever the module returned.
FinalizeAlwaysOk(j) ==
    /\ cpc[j] = "run"
    /\ cpc' = [cpc EXCEPT ![j] = "returned"]
    /\ \E r \in {"Ok"} \cup Msgs, h \in BOOLEAN :
        /\ modres' = [modres EXCEPT ![j] = r]
        /\ holders' = [holders EXCEPT ![j] = h]
        /\ IF h
           THEN /\ cstat' = [cstat EXCEPT ![j] = "Panic"]
                /\ UNCHANGED toParent
           ELSE IF SupervisorAlive(j)
                THEN /\ toParent' = [toParent EXCEPT ![j] = Append(@, ExitEv("Ok"))]
                     /\ cstat' = [cstat EXCEPT ![j] = "Ok"]
                ELSE /\ cstat' = [cstat EXCEPT ![j] = "ErrSend"]
                     /\ UNCHANGED toParent
    /\ UNCHANGED <<parentVars, toChild, childRead, parentRead, cexit,
                   recvErr, bus, busFail, consumerAlive>>

\* start.module.run(environment, mtx.clone(), arg) returns r, with or without
\* another holder h of the reporter handle left alive; then
\* Arc::try_unwrap(mtx).expect(..) panics if there is one, else
\* reporter.send(&Event::Exit(event))? writes the Exit event, which fails
\* when the parent has closed its end of the pipe.
Finalize(j) ==
    /\ cpc[j] = "run"
    /\ cpc' = [cpc EXCEPT ![j] = "returned"]
    /\ \E r \in {"Ok"} \cup Msgs, h \in BOOLEAN :
        /\ modres' = [modres EXCEPT ![j] = r]
        /\ holders' = [holders EXCEPT ![j] = h]
        /\ IF h
           THEN /\ cstat' = [cstat EXCEPT ![j] = "Panic"]
                /\ UNCHANGED toParent
           ELSE IF SupervisorAlive(j)
                THEN /\ toParent' = [toParent EXCEPT ![j] = Append(@, ExitEv(r))]
                     /\ cstat' = [cstat EXCEPT ![j] = "Ok"]
                ELSE /\ cstat' = [cstat EXCEPT ![j] = "ErrSend"]
                     /\ UNCHANGED toParent
    /\ UNCHANGED <<parentVars, toChild, childRead, parentRead, cexit,
                   recvErr, bus, busFail, consumerAlive>>

\* The child process terminates after run_worker has returned or panicked.
\* An error or a panic gives a failure status; after Ok(()) the status is
\* what the rest of the process makes of it.
ChildExit(j) ==
    /\ cpc[j] = "returned"
    /\ \E st \in {"success", "failure"} :
        /\ cstat[j] # "Ok" => st = "failure"
        /\ cexit' = [cexit EXCEPT ![j] = st]
    /\ cpc' = [cpc EXCEPT ![j] = "exited"]
    /\ UNCHANGED <<parentVars, toChild, childRead, toParent, parentRead, cstat, modres,
                   holders, recvErr, bus, busFail, consumerAlive>>

\* The child process is terminated from outside while it runs.
ChildKilled(j) ==
    /\ cpc[j] \in {"recv_start", "load_psl", "run", "await_reply"}
    /\ cpc' = [cpc EXCEPT ![j] = "exited"]
    /\ cstat' = [cstat EXCEPT ![j] = "Killed"]
    /\ cexit' = [cexit EXCEPT ![j] = "failure"]
    /\ UNCHANGED <<parentVars, toChild, childRead, toParent, parentRead, modres,
                   holders, recvErr, bus, busFail, consumerAlive>>

\* ---------------------------------------------------------------- consumer of the bus

\* The consumer answers a callback request it received from the bus.
ConsumerReply(i, v) ==
    /\ consumerAlive
    /\ i \in 1..Len(bus)
    /\ bus[i].reply = "open"
    /\ bus' = [bus EXCEPT ![i].reply = v]
    /\ UNCHANGED <<parentVars, toChild, childRead, toParent, parentRead, childVars,
                   busFail, consumerAlive>>

\* The consumer goes away: the receiving end of the bus is dropped, and with
\* it the reply senders of every request not yet answered.
ConsumerQuit ==
    /\ consumerAlive
    /\ consumerAlive' = FALSE
    /\ bus' = [i \in 1..Len(bus) |->
                 IF bus[i].reply = "open" THEN [bus[i] EXCEPT !.reply = "dropped"] ELSE bus[i]]
    /\ UNCHANGED <<parentVars, toChild, childRead, toParent, parentRead, childVars, busFail>>

\* ---------------------------------------------------------------- specification

Next ==
    \/ \E j \in Jobs : Setup(j)
    \/ \E j \in Jobs : SendStart(j)
    \/ \E j \in Jobs : RecvLog(j)
    \/ \E j \in Jobs : RecvDatabase(j)
    \/ \E j \in Jobs : ReplyArrives(j)
    \/ \E j \in Jobs : ReplyLost(j)
    \/ \E j \in Jobs : RecvExit(j)
    \/ \E j \in Jobs : RecvFail(j)
    \/ \E j \in Jobs : Wait(j)
    \/ \E j \in Jobs : RecvStart(j)
    \/ \E j \in Jobs : LoadPsl(j)
    \/ \E j \in Jobs : ModuleLog(j)
    \/ \E j \in Jobs : ModuleDb(j)
    \/ \E j \in Jobs : ModuleGarbage(j)
    \/ \E j \in Jobs : RecvReply(j)
    \/ \E j \in Jobs : Finalize(j)
    \/ \E j \in Jobs : ChildExit(j)
    \/ \E j \in Jobs : ChildKilled(j)
    \/ \E i \in 1..Len(bus), v \in Replies : ConsumerReply(i, v)
    \/ ConsumerQuit

Spec == Init /\ [][Next]_vars

\* The same system with a single job running: only one spawn_module is ever
\* called, the other job stays where Init puts it.
Solo == "A"

NextOne ==
    \/ Setup(Solo)
    \/ SendStart(Solo)
    \/ RecvLog(Solo)
    \/ RecvDatabase(Solo)
    \/ ReplyArrives(Solo)
    \/ ReplyLost(Solo)
    \/ RecvExit(Solo)
    \/ RecvFail(Solo)
    \/ Wait(Solo)
    \/ RecvStart(Solo)
    \/ LoadPsl(Solo)
    \/ ModuleLog(Solo)
    \/ ModuleDb(Solo)
    \/ ModuleGarbage(Solo)
    \/ RecvReply(Solo)
    \/ Finalize(Solo)
    \/ ChildExit(Solo)
    \/ ChildKilled(Solo)
    \/ \E i \in 1..Len(bus), v \in Replies : ConsumerReply(i, v)
    \/ ConsumerQuit

SpecOne == Init /\ [][NextOne]_vars

\* The single job under fair scheduling. The thread running spawn_module and
\* the child process each keep taking their next step when one is possible;
\* module.run returns in the end (its emitting of events is not forced); the
\* consumer answers a request that stays open. Killing the child and the
\* consumer going away are possible and never forced.
ParentFair ==
    /\ WF_vars(Setup(Solo))
    /\ WF_vars(SendStart(Solo))
    /\ WF_vars(RecvLog(Solo))
    /\ WF_vars(RecvDatabase(Solo))
    /\ WF_vars(ReplyArrives(Solo))
    /\ WF_vars(ReplyLost(Solo))
    /\ WF_vars(RecvExit(Solo))
    /\ WF_vars(RecvFail(Solo))
    /\ WF_vars(Wait(Solo))

ChildFair ==
    /\ WF_vars(RecvStart(Solo))
    /\ WF_vars(LoadPsl(Solo))
    /\ WF_vars(RecvReply(Solo))
    /\ WF_vars(Finalize(Solo))
    /\ WF_vars(ChildExit(Solo))

ConsumerFair == WF_vars(\E i \in 1..Len(bus), v \in Replies : ConsumerReply(i, v))

SpecLive == Init /\ [][NextOne]_vars /\ ParentFair /\ ChildFair /\ ConsumerFair

\* ---------------------------------------------------------------- observations

\* The lines of the child's output the Supervisor has read so far.
ReadSoFar(j) == SubSeq(toParent[j], 1, parentRead[j])

\* Reply lines written to the child's stdin (every line but the StartCommand).
RepliesWritten(j) == Count(toChild[j], LAMBDA l : l # StartLine)

\* Reply lines the child has read.
RepliesRead(j) == IF childRead[j] = 0 THEN 0 ELSE childRead[j] - 1

DbEmitted(j) == Count(toParent[j], LAMBDA e : e.type = "Database")
DbReceived(j) == Count(ReadSoFar(j), LAMBDA e : e.type = "Database")
DbOnBus(j) == Count(bus, LAMBDA b : b.job = j /\ b.kind = "Database")
DbAnswered(j) == Count(bus, LAMBDA b : b.job = j /\ b.kind = "Database" /\ b.reply \in Replies)

ExitCount(j) == Count(toParent[j], LAMBDA e : e.type = "Exit")
ExitReceived(j) == {e \in {ReadSoFar(j)[i] : i \in 1..parentRead[j]} : e.type = "Exit"}

\* ---------------------------------------------------------------- claims

\* C1: a Database request is never answered by the Supervisor itself. Every
\* Database event the Supervisor has received is on the bus exactly once
\* (never more often, and not less often while the consumer is there to take
\* it); the number of reply lines written to the child never exceeds the
\* number of its requests the consumer has answered; and a child that has
\* sent a request without having read its reply is still blocked in its read,
\* unless its stdin was closed under it or the process was terminated.
C1_CallbackViaBus ==
    \A j \in Jobs :
        /\ DbOnBus(j) <= DbReceived(j)
        /\ consumerAlive => DbOnBus(j) = DbReceived(j)
        /\ RepliesWritten(j) <= DbAnswered(j)
        /\ RepliesRead(j) <= RepliesWritten(j)
        /\ (DbEmitted(j) > RepliesRead(j) /\ ~recvErr[j]) => cpc[j] \in {"await_reply", "exited"}

\* A request was answered by the consumer, forwarded, and the child resumed.
C1_Witness ==
    \E j \in Jobs :
        /\ DbOnBus(j) = 1
        /\ DbAnswered(j) = 1
        /\ RepliesWritten(j) = 1
        /\ RepliesRead(j) = 1
        /\ cpc[j] = "run"

\* C2: Exit(Ok) followed by a non-success exit status makes spawn_module
\* return an error: spawn_module returns Ok only if the child's exit status
\* is success, and once it has returned after Exit(Ok) from a child that
\* exited with failure its result is the "Child signaled error" error.
C2_ExitStatusDecides ==
    \A j \in Jobs :
        /\ presult[j] = "Ok" => cexit[j] = "success"
        /\ (ppc[j] = "done" /\ ExitEv("Ok") \in ExitReceived(j) /\ cexit[j] = "failure")
              => presult[j] = "ErrChild"

\* Exit(Ok) was received, the process exited with failure, the job failed.
C2_Witness ==
    \E j \in Jobs :
        /\ ppc[j] = "done"
        /\ ExitEv("Ok") \in ExitReceived(j)
        /\ cexit[j] = "failure"
        /\ presult[j] = "ErrChild"

\* The error of Exit(Err(m)) was relayed to the bus for job j.
ErrorOnBus(j, m) == \E i \in 1..Len(bus) : bus[i] = BusError(j, m)

\* C3: a job whose child sent Exit(Err(m)) is reported as failed with message
\* exactly m: once spawn_module has returned after reading Exit(Err(m)), its
\* result is a failure and the error relayed for the job carries m; no reply
\* is written beyond the requests received.
C3_ExitErrReportedFailed ==
    \A j \in Jobs : \A m \in Msgs :
        (ppc[j] = "done" /\ ExitEv(m) \in ExitReceived(j)) =>
            /\ presult[j] # "Ok"
            /\ consumerAlive => ErrorOnBus(j, m)
            /\ RepliesWritten(j) <= DbReceived(j)

\* C4: while job a is blocked on a reply the consumer has not produced, a Log
\* event waiting in job b's pipe can be relayed at once, and relaying it
\* appends it to the bus.
C4_LogNotBlockedByCallback ==
    \A a \in Jobs : \A b \in Jobs \ {a} :
        (/\ ppc[a] = "await_reply"
         /\ ReplyState(a) = "open"
         /\ ppc[b] = "recv"
         /\ HasLine(b)
         /\ NextLine(b).type = "Log")
        => ENABLED (RecvLog(b) /\ bus' = Append(bus, BusLog(b)))

\* Job b's Log reached the bus after job a's request, which is still unanswered.
C4_Witness ==
    \E a \in Jobs : \E b \in Jobs \ {a} :
        /\ ppc[a] = "await_reply"
        /\ ReplyState(a) = "open"
        /\ \E i \in 1..Len(bus) : i > waitChan[a] /\ bus[i] = BusLog(b)

\* C5: when the module has returned while another holder of the reporter
\* handle is alive, finalization panics: no Exit event is ever on the child's
\* output, the process does not exit with success, and spawn_module does not
\* return Ok.
C5_HolderAliveIsFatal ==
    \A j \in Jobs :
        (modres[j] # "none" /\ holders[j]) =>
            /\ cstat[j] = "Panic"
            /\ ExitCount(j) = 0
            /\ cpc[j] = "exited" => cexit[j] = "failure"
            /\ cexit[j] # "success"
            /\ presult[j] # "Ok"

\* Finalization panicked, the child exited, the parent's recv failed.
C5_Witness ==
    \E j \in Jobs :
        /\ holders[j]
        /\ cstat[j] = "Panic"
        /\ cpc[j] = "exited"
        /\ presult[j] = "ErrJson"

\* C6: a child whose stdin is closed before any StartCommand line arrived
\* does not stay blocked: its read returns and the handshake fails; after a
\* failed handshake nothing was read, the module never ran, and no event was
\* written.
C6_HandshakeFailsOnClosedInput ==
    \A j \in Jobs :
        /\ (cpc[j] = "recv_start" /\ toChild[j] = <<>> /\ ~SupervisorAlive(j))
              => ENABLED (RecvStart(j) /\ cstat'[j] = "ErrHandshake" /\ cpc'[j] = "returned")
        /\ cstat[j] = "ErrHandshake" =>
              /\ childRead[j] = 0
              /\ toParent[j] = <<>>
              /\ modres[j] = "none"
              /\ cpc[j] \in {"returned", "exited"}
              /\ cexit[j] # "success"

\* The handshake failed and the child process has terminated.
C6_Witness ==
    \E j \in Jobs :
        /\ cstat[j] = "ErrHandshake"
        /\ toChild[j] = <<>>
        /\ cpc[j] = "exited"

\* The next recv of job j cannot yield an Event.
RecvFails(j) ==
    \/ HasLine(j) /\ NextLine(j).type = "Garbage"
    \/ ~HasLine(j) /\ ~ChildAlive(j)

\* C7: when the Supervisor's recv fails before an Exit was received, the step
\* spawn_module takes is to return a failure, writing nothing to the child;
\* and once spawn_module has returned it reads and writes nothing more and
\* its result does not change.
C7_RecvFailureIsFinal ==
    [][\A j \in Jobs :
        /\ (ppc[j] = "recv" /\ RecvFails(j) /\ <<ppc[j], parentRead[j]>>' # <<ppc[j], parentRead[j]>>)
              => /\ ppc'[j] = "done"
                 /\ presult'[j] \notin {"none", "Ok"}
                 /\ toChild'[j] = toChild[j]
                 /\ bus' = bus
        /\ ppc[j] = "done"
              => /\ ppc'[j] = "done"
                 /\ presult'[j] = presult[j]
                 /\ parentRead'[j] = parentRead[j]
                 /\ toChild'[j] = toChild[j]]_vars

\* A line that is not an Event was read from a running child and the job failed.
C7_Witness ==
    \E j \in Jobs :
        /\ ppc[j] = "done"
        /\ presult[j] = "ErrJson"
        /\ parentRead[j] > 0
        /\ toParent[j][parentRead[j]].type = "Garbage"
        /\ ExitReceived(j) = {}

\* C8 as stated: whenever the module returned and finalization succeeded,
\* the child's output holds exactly one Exit event, it is the last line, and
\* it carries the module's result.
C8_ExactlyOneExit ==
    \A j \in Jobs :
        cstat[j] \in {"Ok", "ErrSend"} =>
            /\ ExitCount(j) = 1
            /\ toParent[j][Len(toParent[j])] = ExitEv(modres[j])

\* C8 amended: there is never more than one Exit event on a child's output;
\* an Exit event is the last line and carries the module's result (Ok, or the
\* error message); when finalization succeeded and the write of the Exit
\* event succeeded there is exactly one; the write fails, and no Exit is
\* written, only when the parent has dropped its Supervisor.
C8_ExitLastUnlessPipeClosed ==
    \A j \in Jobs :
        /\ ExitCount(j) <= 1
        /\ ExitCount(j) = 1 =>
              /\ toParent[j][Len(toParent[j])] = ExitEv(modres[j])
              /\ modres[j] # "none"
              /\ ~holders[j]
        /\ cstat[j] = "Ok" => ExitCount(j) = 1
        /\ cstat[j] = "ErrSend" => ExitCount(j) = 0 /\ ~SupervisorAlive(j)

\* The module emitted an event, returned an error, and Exit(Err) ends the stream.
C8_Witness ==
    \E j \in Jobs :
        /\ cstat[j] = "Ok"
        /\ modres[j] \in Msgs
        /\ Len(toParent[j]) >= 2
        /\ toParent[j][Len(toParent[j])] = ExitEv(modres[j])

\* C9 as stated: a child that failed on a malformed public-suffix list has
\* sent an Exit(Err) event to the parent.
C9_PslSurfacedAsExit ==
    \A j \in Jobs :
        (cstat[j] = "ErrPsl" /\ cpc[j] = "exited") =>
            \E i \in 1..Len(toParent[j]) :
                toParent[j][i].type = "Exit" /\ toParent[j][i].arg # "Ok"

\* C9 amended: a malformed public-suffix list is fatal to the child:
\* run_worker returns the error before the module runs and without writing
\* any event, the process does not exit with success, and the parent learns
\* of it only through its failed recv on the closed pipe.
C9_PslFatalWithoutExit ==
    \A j \in Jobs :
        cstat[j] = "ErrPsl" =>
            /\ cpc[j] \in {"returned", "exited"}
            /\ toParent[j] = <<>>
            /\ modres[j] = "none"
            /\ cexit[j] # "success"
            /\ presult[j] \in {"none", "ErrJson"}

\* The list was malformed, the child exited, spawn_module failed in recv.
C9_Witness ==
    \E j \in Jobs :
        /\ cstat[j] = "ErrPsl"
        /\ cpc[j] = "exited"
        /\ presult[j] = "ErrJson"

\* C10: when a callback request could not be handed to the bus (it was
\* received but is not on the bus), the failure has been logged, no reply
\* line was written for it, the Supervisor is blocked on the dead reply
\* channel or has unwound, and a child that got past its read did so by
\* seeing its stdin closed.
C10_BusFailureGivesNoReply ==
    \A j \in Jobs :
        DbOnBus(j) < DbReceived(j) =>
            /\ busFail[j] >= 1
            /\ RepliesWritten(j) = DbReceived(j) - 1
            /\ RepliesRead(j) < DbEmitted(j)
            /\ ppc[j] \in {"await_reply", "panicked"}
            /\ (cpc[j] # "await_reply" /\ cstat[j] # "Killed") => recvErr[j]

\* The request was lost, the Supervisor unwound, the child saw end of input.
C10_Witness ==
    \E j \in Jobs :
        /\ DbOnBus(j) < DbReceived(j)
        /\ ppc[j] = "panicked"
        /\ recvErr[j]

\* Everything that belongs to job j alone: its spawn_module, its child, its pipes.
JobState(j) ==
    <<ppc[j], presult[j], waitChan[j], toChild[j], childRead[j], toParent[j],
      parentRead[j], cpc[j], cstat[j], cexit[j], modres[j], holders[j], recvErr[j],
      busFail[j]>>

\* The events of job j on the bus, with their reply channels.
BusOf(j) == SelectSeq(bus, LAMBDA b : b.job = j)

\* Job j has failed: spawn_module returned an error or unwound, or its child
\* ended in an error, a panic or a failure exit status.
JobFailed(j) ==
    \/ presult[j] \notin {"none", "Ok"}
    \/ cstat[j] \notin {"none", "Ok"}
    \/ cexit[j] = "failure"
    \/ modres[j] \in Msgs

\* C11: a step of one job, and in particular the step in which it fails
\* (setup error, protocol error, pipe closure, module error, non-success
\* exit), changes nothing of any other job: the other job's supervisor
\* state, pipes, child, result and events on the bus stay as they are.
C11_JobsAreIndependent ==
    [][\A a \in Jobs :
        (JobState(a)' # JobState(a)) =>
            \A b \in Jobs \ {a} : JobState(b)' = JobState(b) /\ BusOf(b)' = BusOf(b)]_vars

\* One job failed in recv while the other ran to a clean result.
C11_Witness ==
    \E a \in Jobs : \E b \in Jobs \ {a} :
        /\ presult[a] = "ErrJson"
        /\ JobFailed(a)
        /\ presult[b] = "Ok"
        /\ modres[b] = "Ok"

Spawned(j) == ppc[j] # "setup" /\ presult[j] # "ErrSetup"

\* spawn_module returned through supervisor.wait(), the only place where the
\* child's exit status is collected.
Reaped(j) == presult[j] \in {"Ok", "ErrChild"}

\* C13: whenever spawn_module has reported the result of a job whose child
\* was spawned, the child's exit status has been collected by wait().
C13_ChildAlwaysReaped ==
    \A j \in Jobs :
        (ppc[j] = "done" /\ Spawned(j)) => Reaped(j) /\ cpc[j] = "exited"

\* Bus positions of the callback requests of job j, and of those not yet answered.
DbEntries(j) == {i \in 1..Len(bus) : bus[i].job = j /\ bus[i].kind = "Database"}
Outstanding(j) == {i \in DbEntries(j) : bus[i].reply = "open"}

\* Error logs of job j for replies that could not be written to its child.
SendErrors(j) == Count(bus, LAMBDA b : b = BusError(j, FailedToSend))

\* C14: a Supervisor has at most one callback request outstanding, and it is
\* the one it is blocked on; while it is blocked the last line it read is
\* that request; a later request of the same child is on the bus only when
\* every earlier one has been answered; and outside send_event_callback every
\* request received has had its reply forwarded (written, or the failed write
\* logged).
C14_OneRequestAtATime ==
    \A j \in Jobs :
        /\ Cardinality(Outstanding(j)) <= 1
        /\ \A i \in Outstanding(j) : ppc[j] = "await_reply" /\ waitChan[j] = i
        /\ \A i \in DbEntries(j) : \A k \in DbEntries(j) : i < k => bus[i].reply \in Replies
        /\ ppc[j] = "await_reply" =>
              parentRead[j] > 0 /\ toParent[j][parentRead[j]].type = "Database"
        /\ DbReceived(j) <= DbAnswered(j) + 1
        /\ (consumerAlive /\ ppc[j] \in {"recv", "wait", "done"}) =>
              RepliesWritten(j) + SendErrors(j) = DbReceived(j)

\* A second request of the same child is outstanding after the first was answered.
C14_Witness ==
    \E j \in Jobs :
        /\ Cardinality(DbEntries(j)) = 2
        /\ Cardinality(Outstanding(j)) = 1
        /\ RepliesWritten(j) = 1
        /\ ppc[j] = "await_reply"

\* StartCommand lines written to the child of job j.
StartCount(j) == Count(toChild[j], LAMBDA l : l = StartLine)

\* C15 as stated: every spawn_module run that is over has written exactly
\* one StartCommand line to its child.
C15_ExactlyOneStart ==
    \A j \in Jobs :
        ppc[j] \in {"done", "panicked"} => StartCount(j) = 1

\* C15 amended: a StartCommand line is written at most once and is the first
\* line on the child's stdin; every later line is a reply value and there are
\* no more of them than requests received; a run that has reached its receive
\* loop has written exactly one, before any recv; a run whose setup or
\* send_start failed has written nothing.
C15_StartFirstAndOnce ==
    \A j \in Jobs :
        /\ StartCount(j) <= 1
        /\ toChild[j] # <<>> =>
              /\ toChild[j][1] = StartLine
              /\ \A i \in 2..Len(toChild[j]) : toChild[j][i] \in Replies
        /\ RepliesWritten(j) <= DbReceived(j)
        /\ (parentRead[j] > 0 \/ ppc[j] \in {"recv", "await_reply", "wait", "panicked"}
              \/ presult[j] \in {"Ok", "ErrChild", "ErrJson"}) => StartCount(j) = 1
        /\ presult[j] \in {"ErrSetup", "ErrSend"} => toChild[j] = <<>>

\* The StartCommand was followed by a reply, and the run ended through wait().
C15_Witness ==
    \E j \in Jobs :
        /\ Len(toChild[j]) = 2
        /\ toChild[j][1] = StartLine
        /\ toChild[j][2] \in Replies
        /\ Reaped(j)

\* spawn_module of job j returned because recv consumed a malformed line.
FailedOnMalformed(j) ==
    /\ presult[j] = "ErrJson"
    /\ parentRead[j] > 0
    /\ toParent[j][parentRead[j]].type = "Garbage"

\* spawn_module of job j returned because recv found the child's output
\* closed: read_line returned Ok(0) and nothing was consumed.
FailedOnClosure(j) ==
    /\ presult[j] \in {"ErrJson", "ErrIo"}
    /\ ~FailedOnMalformed(j)

\* C16: recv reports its two failure kinds distinctly: a malformed line is a
\* deserialization error and an unexpected closure of the child's output is
\* an I/O error.
C16_ClosureIsIoError ==
    \A j \in Jobs :
        /\ FailedOnMalformed(j) => presult[j] = "ErrJson"
        /\ FailedOnClosure(j) => presult[j] = "ErrIo"

\* The events the receive loop relays: Log, Database, and Exit(Err).
Relayable(e) == e.type \in {"Log", "Database"} \/ (e.type = "Exit" /\ e.arg \in Msgs)

\* What the receive loop puts on the bus for a relayable event.
RelayOf(e) ==
    CASE e.type = "Log" -> [kind |-> "Log", msg |-> e.arg]
      [] e.type = "Database" -> [kind |-> "Database", msg |-> e.arg]
      [] OTHER -> [kind |-> "Error", msg |-> e.arg]

\* The relayable events of job j's child, in the order they were emitted
\* and read, as they are expected on the bus.
Expected(j) ==
    LET rel == SelectSeq(ReadSoFar(j), Relayable)
    IN [i \in 1..Len(rel) |-> RelayOf(rel[i])]

\* The relayed events of job j on the bus, in bus order; the error log of a
\* failed reply write is the Supervisor's own event, not the child's.
OnBus(j) ==
    LET rel == SelectSeq(BusOf(j), LAMBDA b : ~(b.kind = "Error" /\ b.msg = FailedToSend))
    IN [i \in 1..Len(rel) |-> [kind |-> rel[i].kind, msg |-> rel[i].msg]]

IsPrefix(s, t) == Len(s) <= Len(t) /\ SubSeq(t, 1, Len(s)) = s

\* C17: the relayed events of one child are on the shared bus in the order
\* the child emitted them, none twice and none out of place; as long as the
\* bus has a consumer none is missing either.
C17_RelayedInEmissionOrder ==
    \A j \in Jobs :
        /\ IsPrefix(ReadSoFar(j), toParent[j])
        /\ IsPrefix(OnBus(j), Expected(j))
        /\ consumerAlive => OnBus(j) = Expected(j)

\* One child's Log, callback request and Exit error are all on the bus, and
\* another job has put an event on the same bus.
C17_Witness ==
    \E j \in Jobs :
        /\ Len(OnBus(j)) = 3
        /\ OnBus(j)[1].kind = "Log"
        /\ OnBus(j)[2].kind = "Database"
        /\ OnBus(j)[3].kind = "Error"
        /\ \E k \in Jobs \ {j} : BusOf(k) # <<>>

\* The step of job j's receive loop that consumes a Log line.
LogHandled(j) ==
    /\ ppc[j] = "recv"
    /\ HasLine(j)
    /\ NextLine(j).type = "Log"
    /\ parentRead'[j] = parentRead[j] + 1

DbRequests(j) == SelectSeq(BusOf(j), LAMBDA b : b.kind = "Database")
ReplyLines(j) == SelectSeq(toChild[j], LAMBDA l : l # StartLine)

\* C19: with several jobs on one bus, the k-th reply line written to a child
\* is the value the consumer put on the reply channel of that child's k-th
\* request, never a value put on another job's channel; a request gets at
\* most one reply line, the Supervisor waits only on a channel of its own
\* job, and a reply once produced on a channel is not replaced.
C19_ReplyGoesToItsRequester ==
    /\ [](\A j \in Jobs :
            /\ Len(ReplyLines(j)) <= Len(DbRequests(j))
            /\ \A k \in 1..Len(ReplyLines(j)) : ReplyLines(j)[k] = DbRequests(j)[k].reply
            /\ waitChan[j] # 0 => waitChan[j] \in DbEntries(j))
    /\ [][\A i \in 1..Len(bus) :
            bus[i].reply \in Replies => bus'[i].reply = bus[i].reply]_vars

\* Two jobs had a request outstanding on the same bus and each child was
\* written the value produced for its own request, the two values differing.
C19_Witness ==
    /\ toChild["A"] = <<StartLine, "r1">>
    /\ toChild["B"] = <<StartLine, "r2">>
    /\ Len(DbRequests("A")) = 1
    /\ Len(DbRequests("B")) = 1

\* Job j's Supervisor is blocked in recv on an empty pipe while its live child
\* is blocked reading an empty stdin: each waits for the other.
MutualBlock(j) ==
    /\ ppc[j] = "recv"
    /\ ~HasLine(j)
    /\ ChildAlive(j)
    /\ cpc[j] \in {"recv_start", "await_reply"}
    /\ childRead[j] = Len(toChild[j])

\* C20: under fair scheduling, if the consumer stays to answer every request
\* and the child comes to its end, a spawn_module that has set up its child
\* eventually returns; and the Supervisor and its child are never both
\* blocked reading from each other with nothing in flight.
C20_EventuallyReturns ==
    /\ ([]consumerAlive) => \A j \in Jobs : (ppc[j] = "send_start") ~> (ppc[j] = "done")
    /\ [](\A j \in Jobs : ~MutualBlock(j))

\* spawn_module returned Ok after a callback was answered and forwarded.
C20_Witness ==
    /\ ppc[Solo] = "done"
    /\ presult[Solo] = "Ok"
    /\ RepliesWritten(Solo) = 1
    /\ RepliesRead(Solo) = 1
    /\ consumerAlive

====
